---- MODULE Spec2Model ----
(***************************************************************************)
(* Model of stress_rules_filter.py: the vowel classifier, the last-vowel   *)
(* locator, the exclusion rules and the line filter filter_words.          *)
(*                                                                         *)
(* A character is a string.  Bashkir letters are written in an ASCII       *)
(* transliteration, lower-case letters in lower case and upper-case        *)
(* letters in upper case:                                                  *)
(*   a=U+0430  ae=U+04D9  o=U+043E  oe=U+04E9  ue=U+04AF  u=U+0443         *)
(*   y=U+044B  i=U+0438   eh=U+044D e=U+0435   ya=U+044F  yu=U+044E        *)
(*   m=U+043C  b=U+0431   dh=U+0499 n=U+043D   h=U+04BB   ng=U+04A3        *)
(*   g=U+0433  gh=U+0493  s=U+0441  k=U+043A   d=U+0434   j=U+0439         *)
(*   q=U+04A1  sh=U+0448  l=U+043B  p=U+043F                               *)
(* A word (a Python str) is a sequence of characters; Python position i is *)
(* element i+1 of the sequence.                                            *)
(***************************************************************************)
EXTENDS Integers, Sequences, FiniteSets

VARIABLES
    entry,          \* the function that is called: one of the module's functions
    pc,             \* position of the call
    word,           \* argument `word` of the three rule functions
    index,          \* argument `index` of is_vowel_in_context / should_exclude_word
    ret,            \* value returned by the rule function, "none" before it returns
    in_status,      \* input path: "ok", "missing" or "denied"
    input_content,  \* characters of the input file
    out_status,     \* output path: "ok", "no_dir" (no parent directory) or "denied"
    output_exists,  \* whether the output file exists
    output,         \* characters of the output file
    output_before,  \* the output file as it was when the run started
    pos,            \* number of input lines the for loop has taken
    filtered_words, \* the list filtered_words
    in_open,        \* the input handle is open
    out_open,       \* the output handle is open
    out_opens,      \* how many times the run has opened the output file
    read_done,      \* the for loop over the input has run to its end
    written,        \* number of elements of filtered_words written
    stdout,         \* what the run has printed
    exit_status,    \* "running", or the exit status "0" or "1"
    run,            \* 1: first run; 2: the run on the first run's output
    first_input,    \* input of the first run
    first_output    \* output of the first run


\* --------------------------------------------------------------- characters

LowerLetters ==
    << "a", "ae", "o", "oe", "ue", "u", "y", "i", "eh", "e", "ya", "yu",
       "m", "b", "dh", "n", "h", "ng", "g", "gh", "s", "k", "d", "j",
       "q", "sh", "l", "p" >>

UpperLetters ==
    << "A", "AE", "O", "OE", "UE", "U", "Y", "I", "EH", "E", "YA", "YU",
       "M", "B", "DH", "N", "H", "NG", "G", "GH", "S", "K", "D", "J",
       "Q", "SH", "L", "P" >>

\* The lower-case letter of each upper-case letter, and the reverse.
LowerOf == [c \in {UpperLetters[k] : k \in 1..Len(UpperLetters)} |->
               LowerLetters[CHOOSE k \in 1..Len(UpperLetters) : UpperLetters[k] = c]]

UpperOf == [c \in {LowerLetters[k] : k \in 1..Len(LowerLetters)} |->
               UpperLetters[CHOOSE k \in 1..Len(LowerLetters) : LowerLetters[k] = c]]

\* str.lower() of one character: an upper-case letter becomes its lower-case
\* letter, every other character is unchanged.
lower(c) == IF c \in DOMAIN LowerOf THEN LowerOf[c] ELSE c

\* str.upper() of one character (used to build mixed-case inputs only).
upper(c) == IF c \in DOMAIN UpperOf THEN UpperOf[c] ELSE c

\* str.lower() of a string.
lower_str(s) == [k \in 1..Len(s) |-> lower(s[k])]

\* s[i] with Python's 0-based position.
At(s, i) == s[i + 1]

endswith(s, suffix) ==
    /\ Len(suffix) <= Len(s)
    /\ SubSeq(s, Len(s) - Len(suffix) + 1, Len(s)) = suffix

startswith(s, prefix) ==
    /\ Len(prefix) <= Len(s)
    /\ SubSeq(s, 1, Len(prefix)) = prefix

\* ------------------------------------------------------------------ vowels

get_bashkir_vowels ==
    {"a", "ae", "o", "oe", "ue", "u", "y", "i", "eh", "e", "ya", "yu"}

special_vowels == {"ue", "u"}

regular_vowels == get_bashkir_vowels \ special_vowels

\* is_vowel_in_context that classifies the character without lowercasing it.
is_vowel_in_context_case_sensitive(w, i) ==
    IF i < 0 \/ i >= Len(w) THEN FALSE
    ELSE LET char == At(w, i) IN
         IF char \in regular_vowels THEN TRUE
         ELSE IF char \in special_vowels
              THEN IF i > 0 /\ lower(At(w, i - 1)) \in regular_vowels
                   THEN FALSE
                   ELSE IF i < Len(w) - 1 /\ lower(At(w, i + 1)) \in regular_vowels
                        THEN FALSE
                        ELSE TRUE
              ELSE FALSE

\* is_vowel_in_context without the test of the next character.
is_vowel_in_context_prev_only(w, i) ==
    IF i < 0 \/ i >= Len(w) THEN FALSE
    ELSE LET char == lower(At(w, i)) IN
         IF char \in regular_vowels THEN TRUE
         ELSE IF char \in special_vowels
              THEN IF i > 0 /\ lower(At(w, i - 1)) \in regular_vowels
                   THEN FALSE
                   ELSE TRUE
              ELSE FALSE

\* is_vowel_in_context(word, index).
is_vowel_in_context(w, i) ==
    IF i < 0 \/ i >= Len(w) THEN FALSE
    ELSE LET char == lower(At(w, i)) IN
         IF char \in regular_vowels THEN TRUE
         ELSE IF char \in special_vowels
              THEN IF i > 0 /\ lower(At(w, i - 1)) \in regular_vowels
                   THEN FALSE
                   ELSE IF i < Len(w) - 1 /\ lower(At(w, i + 1)) \in regular_vowels
                        THEN FALSE
                        ELSE TRUE
              ELSE FALSE

\* The loop body of find_last_vowel_index without the test of the previous
\* character.
last_vowel_step_no_prev(w, i, last_index) ==
    LET char_lower == lower(At(w, i)) IN
    IF char_lower \in regular_vowels THEN i
    ELSE IF char_lower \in special_vowels
         THEN LET next == i < Len(w) - 1 /\ lower(At(w, i + 1)) \in regular_vowels
                  has_adjacent_vowel == next
              IN IF ~has_adjacent_vowel THEN i ELSE last_index
         ELSE last_index

\* One iteration of the for loop of find_last_vowel_index at position i:
\* the new value of last_index.
last_vowel_step(w, i, last_index) ==
    LET char_lower == lower(At(w, i)) IN
    IF char_lower \in regular_vowels THEN i
    ELSE IF char_lower \in special_vowels
         THEN LET prev == i > 0 /\ lower(At(w, i - 1)) \in regular_vowels
                  next == i < Len(w) - 1 /\ lower(At(w, i + 1)) \in regular_vowels
                  has_adjacent_vowel == prev \/ next
              IN IF ~has_adjacent_vowel THEN i ELSE last_index
         ELSE last_index

RECURSIVE last_vowel_loop(_, _, _)
last_vowel_loop(w, i, last_index) ==
    IF i >= Len(w) THEN last_index
    ELSE last_vowel_loop(w, i + 1, last_vowel_step(w, i, last_index))

find_last_vowel_index(w) == last_vowel_loop(w, 0, -1)

\* ------------------------------------------------------------------- rules

simple_endings == << <<"m", "o">>, <<"m", "e">>, <<"m", "oe">>, <<"m", "y">> >>

complex_endings ==
    << <<"b", "o", "dh">>, <<"b", "e", "dh">>, <<"b", "y", "dh">>, <<"b", "oe", "dh">>,
       <<"m", "e", "n">>, <<"m", "oe", "n">>, <<"m", "o", "n">>, <<"m", "y", "n">>,
       <<"h", "e", "ng">>, <<"h", "oe", "ng">>, <<"h", "o", "ng">>, <<"h", "y", "ng">>,
       <<"h", "e", "g", "e", "dh">>, <<"h", "oe", "g", "oe", "dh">>,
       <<"h", "o", "gh", "o", "dh">>, <<"h", "y", "gh", "y", "dh">>,
       <<"s", "a">>, <<"s", "ae">> >>

question_words ==
    << <<"k", "e", "m">>, <<"n", "i", "n", "d", "ae", "j">>, <<"n", "i", "s", "e", "k">>,
       <<"q", "a", "j", "dh", "a">>, <<"n", "i", "ng", "ae">>, <<"n", "i", "s", "ae">>,
       <<"q", "a", "s", "a", "n">>, <<"q", "a", "j", "h", "y">>,
       <<"q", "a", "j", "dh", "a", "n">>, <<"n", "i", "sh", "l", "ae", "p">>,
       <<"n", "i", "m", "ae">> >>

\* The loop over complex_endings without the test of the preceding character.
RECURSIVE complex_endings_loop_unguarded(_, _, _)
complex_endings_loop_unguarded(w, word_lower, k) ==
    IF k > Len(complex_endings) THEN FALSE
    ELSE IF endswith(word_lower, complex_endings[k]) THEN TRUE
    ELSE complex_endings_loop_unguarded(w, word_lower, k + 1)

\* The for loop over complex_endings from its k-th element on: TRUE when the
\* loop executes `return True`, FALSE when it runs to its end.
RECURSIVE complex_endings_loop(_, _, _)
complex_endings_loop(w, word_lower, k) ==
    IF k > Len(complex_endings) THEN FALSE
    ELSE LET ending == complex_endings[k]
             prefix_index == Len(w) - Len(ending) - 1
         IN IF endswith(word_lower, ending)
            THEN IF prefix_index >= 0 /\ is_vowel_in_context(w, prefix_index)
                 THEN complex_endings_loop(w, word_lower, k + 1)
                 ELSE TRUE
            ELSE complex_endings_loop(w, word_lower, k + 1)

\* should_exclude_word without the test of the -1 sentinel.
should_exclude_return_no_sentinel(w, i) ==
    LET word_lower == lower_str(w) IN
    IF \E k \in 1..Len(simple_endings) : endswith(word_lower, simple_endings[k])
    THEN 94
    ELSE IF complex_endings_loop(w, word_lower, 1)
    THEN 108
    ELSE IF \E k \in 1..Len(question_words) : startswith(word_lower, question_words[k])
    THEN 114
    ELSE LET last_vowel_index == find_last_vowel_index(w) IN
         IF last_vowel_index = i
         THEN 119
         ELSE 121

\* The source line of the return statement should_exclude_word leaves by.
should_exclude_return(w, i) ==
    LET word_lower == lower_str(w) IN
    IF \E k \in 1..Len(simple_endings) : endswith(word_lower, simple_endings[k])
    THEN 94
    ELSE IF complex_endings_loop(w, word_lower, 1)
    THEN 108
    ELSE IF \E k \in 1..Len(question_words) : startswith(word_lower, question_words[k])
    THEN 114
    ELSE LET last_vowel_index == find_last_vowel_index(w) IN
         IF last_vowel_index # -1 /\ last_vowel_index = i
         THEN 119
         ELSE 121

should_exclude_word(w, i) == should_exclude_return(w, i) # 121

\* -------------------------------------------------------------------- text

Whitespace == {" ", "\t", "\n"}

RECURSIVE lstrip(_)
lstrip(s) == IF s # <<>> /\ Head(s) \in Whitespace THEN lstrip(Tail(s)) ELSE s

RECURSIVE rstrip(_)
rstrip(s) ==
    IF s # <<>> /\ s[Len(s)] \in Whitespace THEN rstrip(SubSeq(s, 1, Len(s) - 1)) ELSE s

\* str.lstrip() in the place of str.strip().
strip_left_only(s) == lstrip(s)

\* str.strip(): the string without its leading and trailing whitespace.

strip(s) == rstrip(lstrip(s))

\* str.split(): the maximal runs of non-whitespace characters, in order.
\* cur is the run being read, parts the runs already closed.
RECURSIVE split_loop(_, _, _, _)
split_loop(s, k, cur, parts) ==
    LET closed == IF cur = <<>> THEN parts ELSE Append(parts, cur) IN
    IF k > Len(s) THEN closed
    ELSE IF s[k] \in Whitespace THEN split_loop(s, k + 1, <<>>, closed)
    ELSE split_loop(s, k + 1, Append(cur, s[k]), parts)

split(s) == split_loop(s, 1, <<>>, <<>>)

Digits == <<"0", "1", "2", "3", "4", "5", "6", "7", "8", "9">>

IsDigit(c) == \E d \in 1..Len(Digits) : Digits[d] = c

DigitValue(c) == (CHOOSE d \in 1..Len(Digits) : Digits[d] = c) - 1

\* The digits of a decimal literal from position k on; acc is the value read so
\* far, after_digit whether the previous character was a digit.  A single
\* underscore may stand between two digits.
RECURSIVE int_digits(_, _, _, _)
int_digits(s, k, acc, after_digit) ==
    IF k > Len(s) THEN [ok |-> after_digit, value |-> acc]
    ELSE IF IsDigit(s[k]) THEN int_digits(s, k + 1, 10 * acc + DigitValue(s[k]), TRUE)
    ELSE IF s[k] = "_" /\ after_digit THEN int_digits(s, k + 1, acc, FALSE)
    ELSE [ok |-> FALSE, value |-> 0]

\* int(s): ok is FALSE where Python raises ValueError.
int(s) ==
    IF s # <<>> /\ Head(s) = "-"
    THEN LET r == int_digits(Tail(s), 1, 0, FALSE) IN [ok |-> r.ok, value |-> 0 - r.value]
    ELSE IF s # <<>> /\ Head(s) = "+" THEN int_digits(Tail(s), 1, 0, FALSE)
    ELSE int_digits(s, 1, 0, FALSE)

\* The lines a text file yields when iterated: each ends with its "\n", except
\* possibly the last.
RECURSIVE file_lines_loop(_, _, _, _)
file_lines_loop(content, k, cur, lines) ==
    IF k > Len(content) THEN (IF cur = <<>> THEN lines ELSE Append(lines, cur))
    ELSE IF content[k] = "\n"
         THEN file_lines_loop(content, k + 1, <<>>, Append(lines, Append(cur, "\n")))
         ELSE file_lines_loop(content, k + 1, Append(cur, content[k]), lines)

file_lines(content) == file_lines_loop(content, 1, <<>>, <<>>)

\* ------------------------------------------------------------- filter_words

\* The loop body that keeps a line with a wrong number of tokens.
filtered_words_after_keep_malformed(fw, raw) ==
    LET line == strip(raw) IN
    IF line = <<>> THEN fw
    ELSE LET parts == split(line) IN
         IF Len(parts) # 2 THEN Append(fw, line)
         ELSE LET n == int(parts[2]) IN
              IF ~n.ok THEN fw
              ELSE IF ~should_exclude_word(parts[1], n.value)
                   THEN Append(fw, line)
                   ELSE fw

\* The body of the for loop over the input for the raw line `raw`: the value
\* of filtered_words after it.
filtered_words_after(fw, raw) ==
    LET line == strip(raw) IN
    IF line = <<>> THEN fw
    ELSE LET parts == split(line) IN
         IF Len(parts) # 2 THEN fw
         ELSE LET n == int(parts[2]) IN
              IF ~n.ok THEN fw
              ELSE IF ~should_exclude_word(parts[1], n.value)
                   THEN Append(fw, line)
                   ELSE fw

\* The same body: what it prints.
printed_after(out, raw) ==
    LET line == strip(raw) IN
    IF line = <<>> THEN out
    ELSE LET parts == split(line) IN
         IF Len(parts) # 2 THEN Append(out, <<"warning_bad_line", line>>)
         ELSE IF ~int(parts[2]).ok THEN Append(out, <<"warning_bad_index", line>>)
         ELSE out

\* f.write(line) in the place of f.write(line + '\n').
written_text_no_newline(line) == line

\* What f.write(line + '\n') appends to the output file.

written_text(line) == Append(line, "\n")

\* ------------------------------------------------------------------ inputs

MaxStem == 3
MaxTail == 0
MaxIndex == 3
MaxLines == 2

StemChars == {"a", "u", "m"}

RECURSIVE SeqsUpTo(_, _)
SeqsUpTo(S, n) ==
    IF n = 0 THEN {<<>>}
    ELSE LET shorter == SeqsUpTo(S, n - 1) IN
         shorter \cup {Append(s, c) : s \in {t \in shorter : Len(t) = n - 1}, c \in S}

Range(f) == {f[k] : k \in DOMAIN f}

Endings == {<<>>} \cup Range(simple_endings) \cup Range(complex_endings)

LowerWords ==
    {s \o e : s \in SeqsUpTo(StemChars, MaxStem), e \in Endings}
    \cup {q \o t \o e : q \in Range(question_words),
                        t \in SeqsUpTo(StemChars, MaxTail), e \in Endings}

CaseModes == {"lower", "upper", "alternate"}

ApplyCase(mode, s) ==
    [k \in 1..Len(s) |->
        IF mode = "upper" \/ (mode = "alternate" /\ k % 2 = 0)
        THEN upper(s[k]) ELSE s[k]]

Words == {ApplyCase(mode, s) : mode \in CaseModes, s \in LowerWords}

Indices == -1..MaxIndex

RuleFunctions == {"is_vowel_in_context", "find_last_vowel_index", "should_exclude_word"}

\* Input lines: kept and excluded records, records with surrounding or
\* repeated whitespace, blank lines and malformed lines.
LineSet ==
    { <<"a", "m", "a", " ", "0", "\n">>,
      <<" ", "a", "m", "a", " ", "0", "\n">>,
      <<"a", "m", "a", "\t", " ", "0", " ", "\n">>,
      <<"A", "M", "A", " ", "0", "\n">>,
      <<"a", "s", "a", " ", "-", "1">>,
      <<"a", "m", "a", " ", "2", "\n">>,
      <<"a", "m", "a", " ", "0", "_", "2", "\n">>,
      <<"m", "a", "m", "o", " ", "1", "\n">>,
      <<" ", "\t", "\n">>,
      <<"a", "m", "a", "\n">>,
      <<"a", "m", "a", " ", "0", " ", "0", "\n">>,
      <<"a", "m", "a", " ", "2", "_", "\n">> }

RECURSIVE Concat(_)
Concat(ss) == IF ss = <<>> THEN <<>> ELSE Head(ss) \o Concat(Tail(ss))

Files == {Concat(ls) : ls \in SeqsUpTo(LineSet, MaxLines)}

\* What an output file left by an earlier program holds.
OldContent == <<"o", "l", "d", "\n">>

\* ----------------------------------------------------------- state machine

rule_vars == <<word, index, ret>>

env_vars == <<in_status, input_content, out_status, output_before, run,
              first_input, first_output>>

file_vars == <<in_status, input_content, out_status, output_exists, output,
               output_before, pos, filtered_words, in_open, out_open, out_opens,
               read_done, written, stdout, exit_status, run, first_input,
               first_output>>

vars == <<entry, pc, word, index, ret, in_status, input_content, out_status,
          output_exists, output, output_before, pos, filtered_words, in_open,
          out_open, out_opens, read_done, written, stdout, exit_status, run,
          first_input, first_output>>

\* Values of the variables a call does not use.
NoFile ==
    /\ in_status = "ok" /\ input_content = <<>> /\ out_status = "ok"
    /\ output_exists = FALSE /\ output = <<>> /\ output_before = <<FALSE, <<>>>>
    /\ pos = 0 /\ filtered_words = <<>> /\ in_open = FALSE /\ out_open = FALSE
    /\ out_opens = 0 /\ read_done = FALSE /\ written = 0 /\ stdout = <<>>
    /\ exit_status = "running" /\ run = 1 /\ first_input = <<>>
    /\ first_output = <<>>

InitRules ==
    /\ entry \in RuleFunctions
    /\ pc = "call"
    /\ word \in Words
    /\ index \in (IF entry = "find_last_vowel_index" THEN {0} ELSE Indices)
    /\ ret = "none"
    /\ NoFile

InitFilter ==
    /\ entry = "filter_words"
    /\ pc = "start"
    /\ word = <<>> /\ index = 0 /\ ret = "none"
    /\ in_status \in {"ok", "missing", "denied"}
    /\ input_content \in (IF in_status = "ok" THEN Files ELSE {<<>>})
    /\ out_status \in {"ok", "no_dir", "denied"}
    /\ output_exists \in (IF out_status = "no_dir" THEN {FALSE} ELSE BOOLEAN)
    /\ output = (IF output_exists THEN OldContent ELSE <<>>)
    /\ output_before = <<output_exists, output>>
    /\ pos = 0 /\ filtered_words = <<>> /\ in_open = FALSE /\ out_open = FALSE
    /\ out_opens = 0 /\ read_done = FALSE /\ written = 0 /\ stdout = <<>>
    /\ exit_status = "running" /\ run = 1
    /\ first_input = input_content /\ first_output = <<>>

Init == InitRules \/ InitFilter

CallIsVowelInContext ==
    /\ entry = "is_vowel_in_context" /\ pc = "call"
    /\ ret' = is_vowel_in_context(word, index)
    /\ pc' = "returned"
    /\ UNCHANGED <<entry, word, index, file_vars>>

CallFindLastVowelIndex ==
    /\ entry = "find_last_vowel_index" /\ pc = "call"
    /\ ret' = find_last_vowel_index(word)
    /\ pc' = "returned"
    /\ UNCHANGED <<entry, word, index, file_vars>>

CallShouldExcludeWord ==
    /\ entry = "should_exclude_word" /\ pc = "call"
    /\ ret' = should_exclude_return(word, index)
    /\ pc' = "returned"
    /\ UNCHANGED <<entry, word, index, file_vars>>

\* except FileNotFoundError: print, sys.exit(1).
ExitNotFound ==
    /\ stdout' = Append(stdout, <<"error_input_not_found", <<>>>>)
    /\ exit_status' = "1"
    /\ pc' = "exit"

\* except Exception: print, sys.exit(1).
ExitError ==
    /\ stdout' = Append(stdout, <<"error_processing", <<>>>>)
    /\ exit_status' = "1"
    /\ pc' = "exit"

\* open(input_file, 'r') succeeds.
OpenInput ==
    /\ entry = "filter_words" /\ pc = "start" /\ in_status = "ok"
    /\ in_open' = TRUE
    /\ pc' = "reading"
    /\ UNCHANGED <<entry, rule_vars, env_vars, output_exists, output, pos,
                   filtered_words, out_open, out_opens, read_done, written, stdout,
                   exit_status>>

\* open(input_file, 'r') raises FileNotFoundError.
OpenInputNotFound ==
    /\ entry = "filter_words" /\ pc = "start" /\ in_status = "missing"
    /\ ExitNotFound
    /\ UNCHANGED <<entry, rule_vars, env_vars, output_exists, output, pos,
                   filtered_words, in_open, out_open, out_opens, read_done, written>>

\* open(input_file, 'r') raises another exception (PermissionError, ...).
OpenInputError ==
    /\ entry = "filter_words" /\ pc = "start" /\ in_status = "denied"
    /\ ExitError
    /\ UNCHANGED <<entry, rule_vars, env_vars, output_exists, output, pos,
                   filtered_words, in_open, out_open, out_opens, read_done, written>>

\* One iteration of `for line in f`.
ReadLine ==
    /\ entry = "filter_words" /\ pc = "reading"
    /\ pos < Len(file_lines(input_content))
    /\ LET raw == file_lines(input_content)[pos + 1] IN
        /\ filtered_words' = filtered_words_after(filtered_words, raw)
        /\ stdout' = printed_after(stdout, raw)
    /\ pos' = pos + 1
    /\ UNCHANGED <<entry, pc, rule_vars, env_vars, output_exists, output, in_open,
                   out_open, out_opens, read_done, written, exit_status>>

\* A read error that leaves the input handle open.
ReadError_input_left_open ==
    /\ entry = "filter_words" /\ pc = "reading"
    /\ ExitError
    /\ UNCHANGED <<entry, rule_vars, env_vars, output_exists, output, pos,
                   filtered_words, in_open, out_open, out_opens, read_done, written>>

\* Reading raises (UnicodeDecodeError, OSError): the with statement closes the
\* input, except Exception ends the run.
ReadError ==
    /\ entry = "filter_words" /\ pc = "reading"
    /\ in_open' = FALSE
    /\ ExitError
    /\ UNCHANGED <<entry, rule_vars, env_vars, output_exists, output, pos,
                   filtered_words, out_open, out_opens, read_done, written>>

\* The for loop ends and the with statement closes the input.
CloseInput ==
    /\ entry = "filter_words" /\ pc = "reading"
    /\ pos = Len(file_lines(input_content))
    /\ in_open' = FALSE
    /\ read_done' = TRUE
    /\ pc' = "open_output"
    /\ UNCHANGED <<entry, rule_vars, env_vars, output_exists, output, pos,
                   filtered_words, out_open, out_opens, written, stdout, exit_status>>

\* open(output_file, 'w') succeeds: the file is created or truncated.
OpenOutput ==
    /\ entry = "filter_words" /\ pc = "open_output" /\ out_status = "ok"
    /\ out_open' = TRUE
    /\ out_opens' = out_opens + 1
    /\ output_exists' = TRUE
    /\ output' = <<>>
    /\ pc' = "writing"
    /\ UNCHANGED <<entry, rule_vars, env_vars, pos, filtered_words, in_open,
                   read_done, written, stdout, exit_status>>

\* open(output_file, 'w') raises FileNotFoundError: the directory of the output
\* path does not exist.
OpenOutputNotFound ==
    /\ entry = "filter_words" /\ pc = "open_output" /\ out_status = "no_dir"
    /\ ExitNotFound
    /\ UNCHANGED <<entry, rule_vars, env_vars, output_exists, output, pos,
                   filtered_words, in_open, out_open, out_opens, read_done, written>>

\* open(output_file, 'w') raises another exception.
OpenOutputError ==
    /\ entry = "filter_words" /\ pc = "open_output" /\ out_status = "denied"
    /\ ExitError
    /\ UNCHANGED <<entry, rule_vars, env_vars, output_exists, output, pos,
                   filtered_words, in_open, out_open, out_opens, read_done, written>>

\* One iteration of `for line in filtered_words: f.write(line + '\n')`.
WriteLine ==
    /\ entry = "filter_words" /\ pc = "writing"
    /\ written < Len(filtered_words)
    /\ output' = output \o written_text(filtered_words[written + 1])
    /\ written' = written + 1
    /\ UNCHANGED <<entry, pc, rule_vars, env_vars, output_exists, pos,
                   filtered_words, in_open, out_open, out_opens, read_done, stdout,
                   exit_status>>

\* Writing raises (OSError): the with statement closes the output, except
\* Exception ends the run.
WriteError ==
    /\ entry = "filter_words" /\ pc = "writing"
    /\ out_open' = FALSE
    /\ ExitError
    /\ UNCHANGED <<entry, rule_vars, env_vars, output_exists, output, pos,
                   filtered_words, in_open, out_opens, read_done, written>>

\* The write loop ends, the with statement closes the output, the two success
\* messages are printed and filter_words returns.
CloseOutput ==
    /\ entry = "filter_words" /\ pc = "writing"
    /\ written = Len(filtered_words)
    /\ out_open' = FALSE
    /\ stdout' = stdout \o << <<"success", <<>>>>, <<"count", <<Len(filtered_words)>>>> >>
    /\ exit_status' = "0"
    /\ pc' = "exit"
    /\ UNCHANGED <<entry, rule_vars, env_vars, output_exists, output, pos,
                   filtered_words, in_open, out_opens, read_done, written>>

\* The program is run again on the file the first run wrote, with a new
\* output path.
RunOnOutput ==
    /\ entry = "filter_words" /\ pc = "exit" /\ exit_status = "0" /\ run = 1
    /\ run' = 2
    /\ first_output' = output
    /\ input_content' = output
    /\ in_status' = "ok" /\ out_status' = "ok"
    /\ output_exists' = FALSE /\ output' = <<>> /\ output_before' = <<FALSE, <<>>>>
    /\ pos' = 0 /\ filtered_words' = <<>> /\ in_open' = FALSE /\ out_open' = FALSE
    /\ out_opens' = 0 /\ read_done' = FALSE /\ written' = 0 /\ stdout' = <<>>
    /\ exit_status' = "running"
    /\ pc' = "start"
    /\ UNCHANGED <<entry, rule_vars, first_input>>

Next ==
    \/ CallIsVowelInContext
    \/ CallFindLastVowelIndex
    \/ CallShouldExcludeWord
    \/ OpenInput
    \/ OpenInputNotFound
    \/ OpenInputError
    \/ ReadLine
    \/ ReadError
    \/ CloseInput
    \/ OpenOutput
    \/ OpenOutputNotFound
    \/ OpenOutputError
    \/ WriteLine
    \/ WriteError
    \/ CloseOutput
    \/ RunOnOutput

Spec == Init /\ [][Next]_vars

\* ------------------------------------------------- definitions of the claims

Returned(f) == entry = f /\ pc = "returned"

\* Rule 1: the lowercased word ends with a simple suffix.
SimpleEndingRule(w) ==
    LET lowered == lower_str(w) IN
    \E e \in Range(simple_endings) : endswith(lowered, e)

\* The guarded suffixes the lowercased word ends with, by place in the list.
MatchingEndings(w) ==
    LET lowered == lower_str(w) IN
    {k \in 1..Len(complex_endings) : endswith(lowered, complex_endings[k])}

FirstMatchingEnding(w) ==
    LET matching == MatchingEndings(w) IN
    CHOOSE k \in matching : \A j \in matching : k <= j

\* Position of the character before the first matching guarded suffix.
PrecedingPosition(w) == Len(w) - Len(complex_endings[FirstMatchingEnding(w)]) - 1

\* Rule 2, decided by the first matching suffix alone.
GuardedEndingRule(w) ==
    /\ MatchingEndings(w) # {}
    /\ LET position == PrecedingPosition(w) IN
       position < 0 \/ ~is_vowel_in_context(w, position)

\* Rule 3: the lowercased word starts with a question stem.
QuestionStemRule(w) ==
    LET lowered == lower_str(w) IN
    \E q \in Range(question_words) : startswith(lowered, q)

\* Rule 4: the index is the position of the last vowel.
LastVowelRule(w, i) ==
    find_last_vowel_index(w) # -1 /\ find_last_vowel_index(w) = i

C2_FirstMatchDecides ==
    (Returned("should_exclude_word") /\ ret # 94) =>
        /\ MatchingEndings(word) = {} => ret # 108
        /\ MatchingEndings(word) # {} =>
            LET position == PrecedingPosition(word) IN
            /\ position < 0 => ret = 108
            /\ (position >= 0 /\ ~is_vowel_in_context(word, position)) => ret = 108
            /\ (position >= 0 /\ is_vowel_in_context(word, position)) => ret # 108

\* A word whose first matching guarded suffix follows a vowel and that is kept.
C2_Witness ==
    /\ Returned("should_exclude_word")
    /\ MatchingEndings(word) # {}
    /\ PrecedingPosition(word) >= 0
    /\ is_vowel_in_context(word, PrecedingPosition(word))
    /\ ret = 121

\* The positions next to i that exist in w.
Neighbours(w, i) == {j \in {i - 1, i + 1} : 0 <= j /\ j < Len(w)}

VowelInContext(w, i) ==
    IF i < 0 \/ i >= Len(w) THEN FALSE
    ELSE CASE lower(At(w, i)) \in regular_vowels -> TRUE
           [] lower(At(w, i)) \in special_vowels ->
                ~\E j \in Neighbours(w, i) : lower(At(w, j)) \in regular_vowels
           [] OTHER -> FALSE

\* C3: is_vowel_in_context is false out of range, true for a regular vowel,
\* for a special vowel false exactly when the previous or the next existing
\* character is a regular vowel, and false for every other character.
C3_VowelInContext ==
    Returned("is_vowel_in_context") => ret = VowelInContext(word, index)

\* A special vowel that is no vowel because a regular vowel follows it.
C3_Witness ==
    /\ Returned("is_vowel_in_context")
    /\ 0 <= index /\ index + 1 < Len(word)
    /\ lower(At(word, index)) \in special_vowels
    /\ lower(At(word, index + 1)) \in regular_vowels
    /\ ret = FALSE

VowelPositions(w) == {i \in 0..(Len(w) - 1) : is_vowel_in_context(w, i)}

\* C4: find_last_vowel_index(word) is the greatest position that
\* is_vowel_in_context accepts, -1 exactly when there is none, and lies in
\* -1 .. length-1.
C4_LastVowelAgrees ==
    Returned("find_last_vowel_index") =>
        /\ ret \in -1..(Len(word) - 1)
        /\ (ret = -1) <=> (VowelPositions(word) = {})
        /\ VowelPositions(word) # {} =>
            /\ ret \in VowelPositions(word)
            /\ \A j \in VowelPositions(word) : j <= ret

\* The last vowel is followed by a special vowel that does not count.
C4_Witness ==
    /\ Returned("find_last_vowel_index")
    /\ ret >= 0
    /\ \E j \in (ret + 1)..(Len(word) - 1) : lower(At(word, j)) \in special_vowels

\* Declarative reading of a raw input line.
NonWhitespace(l) == {k \in 1..Len(l) : l[k] \notin Whitespace}

Min(S) == CHOOSE k \in S : \A j \in S : k <= j

Max(S) == CHOOSE k \in S : \A j \in S : j <= k

\* The line without its leading and trailing whitespace.
Trimmed(l) ==
    IF NonWhitespace(l) = {} THEN <<>>
    ELSE SubSeq(l, Min(NonWhitespace(l)), Max(NonWhitespace(l)))

\* The line as it stands in the input, without its line terminator.
Verbatim(l) ==
    IF l # <<>> /\ l[Len(l)] = "\n" THEN SubSeq(l, 1, Len(l) - 1) ELSE l

TokenStarts(l) == {k \in NonWhitespace(l) : k = 1 \/ l[k - 1] \in Whitespace}

TokenAt(l, k) ==
    SubSeq(l, k, Max({j \in k..Len(l) : \A m \in k..j : m \in NonWhitespace(l)}))

FirstToken(l) == TokenAt(l, Min(TokenStarts(l)))

SecondToken(l) == TokenAt(l, Max(TokenStarts(l)))

\* A decimal integer literal as int() reads it.
IsIntegerToken(t) ==
    LET body == IF t # <<>> /\ t[1] \in {"+", "-"} THEN Tail(t) ELSE t IN
    /\ body # <<>>
    /\ \A k \in 1..Len(body) : IsDigit(body[k]) \/ body[k] = "_"
    /\ IsDigit(body[1]) /\ IsDigit(body[Len(body)])
    /\ \A k \in 1..(Len(body) - 1) : ~(body[k] = "_" /\ body[k + 1] = "_")

Blank(l) == NonWhitespace(l) = {}

WellFormed(l) ==
    /\ Cardinality(TokenStarts(l)) = 2
    /\ IsIntegerToken(SecondToken(l))

Malformed(l) == ~Blank(l) /\ ~WellFormed(l)

NotMalformed(l) == ~Malformed(l)

\* The line is a record that no rule excludes.
Retained(l) ==
    /\ WellFormed(l)
    /\ ~should_exclude_word(FirstToken(l), int(SecondToken(l)).value)

InputLines == file_lines(input_content)

LinesRead == SubSeq(InputLines, 1, pos)

VerbatimLines(ls) == Concat([k \in 1..Len(ls) |-> Append(Verbatim(ls[k]), "\n")])

TrimmedLines(ls) == Concat([k \in 1..Len(ls) |-> Append(Trimmed(ls[k]), "\n")])

\* C5 as claimed: the output is the retained input lines, in input order, each
\* character for character as it stood in the input.
C5_KeptVerbatim ==
    (entry = "filter_words" /\ exit_status = "0") =>
        output = VerbatimLines(SelectSeq(InputLines, Retained))

\* C5 as amended: the output is the retained input lines (non-blank, exactly
\* two tokens, integer second token, not excluded), in input order, one per
\* output line, each without its leading and trailing whitespace and otherwise
\* character for character as in the input.
C5_KeptTrimmed ==
    entry = "filter_words" =>
        /\ LET retained == SelectSeq(LinesRead, Retained) IN
           filtered_words = [k \in 1..Len(retained) |-> Trimmed(retained[k])]
        /\ exit_status = "0" => output = TrimmedLines(SelectSeq(InputLines, Retained))

\* A finished run that kept a line which had surrounding whitespace.
C5_Witness ==
    /\ entry = "filter_words" /\ exit_status = "0" /\ run = 1
    /\ \E k \in 1..Len(InputLines) :
          Retained(InputLines[k]) /\ Trimmed(InputLines[k]) # Verbatim(InputLines[k])
    /\ output # <<>>

\* filtered_words after the for loop has taken the lines ls, starting from fw.
RECURSIVE FilteredAfterAll(_, _)
FilteredAfterAll(fw, ls) ==
    IF ls = <<>> THEN fw
    ELSE FilteredAfterAll(filtered_words_after(fw, Head(ls)), Tail(ls))

IsWarning(m) == m[1] \in {"warning_bad_line", "warning_bad_index"}

C6_State ==
    entry = "filter_words" =>
        /\ filtered_words = FilteredAfterAll(<<>>, SelectSeq(LinesRead, NotMalformed))
        /\ \A k \in 1..Len(filtered_words) : ~Malformed(filtered_words[k])
        /\ pc \in {"start", "reading"} =>
              SelectSeq(stdout, IsWarning) = stdout
        /\ LET warnings == SelectSeq(stdout, IsWarning)
               malformed == SelectSeq(LinesRead, Malformed)
           IN [k \in 1..Len(warnings) |-> warnings[k][2]]
                = [k \in 1..Len(malformed) |-> Trimmed(malformed[k])]
        /\ exit_status = "0" =>
              LET expected == FilteredAfterAll(<<>>, SelectSeq(InputLines, NotMalformed)) IN
              /\ pos = Len(InputLines)
              /\ output = Concat([k \in 1..Len(expected) |-> Append(expected[k], "\n")])
              /\ stdout[Len(stdout)] = <<"count", <<Len(expected)>> >>

C6_Step ==
    (entry = "filter_words" /\ pc = "reading" /\ pos' = pos + 1
       /\ Malformed(InputLines[pos + 1])) =>
        /\ pc' = "reading" /\ exit_status' = "running" /\ in_open'
        /\ filtered_words' = filtered_words
        /\ Len(stdout') = Len(stdout) + 1
        /\ IsWarning(stdout'[Len(stdout')])

\* C6: a malformed line is skipped with a warning naming it: it is not kept,
\* not counted, does not end the run, and the lines after it are processed as
\* if it had not been there.
C6_MalformedSkipped == []C6_State /\ [][C6_Step]_vars

\* A finished run whose input is a malformed line followed by a retained line.
C6_Witness ==
    /\ entry = "filter_words" /\ exit_status = "0" /\ run = 1
    /\ Len(InputLines) = 2
    /\ Malformed(InputLines[1]) /\ Retained(InputLines[2])
    /\ output # <<>>

Printed(kind) == \E k \in 1..Len(stdout) : stdout[k][1] = kind

\* C7: a missing input file ends the run with the not-found error and exit
\* status 1 and leaves the output file as it was; exit status 1 with the
\* not-found error occurs only then; a successful run prints the kept count
\* and ends with exit status 0.
C7_NotFoundOnlyWhenInputMissing ==
    (entry = "filter_words" /\ pc = "exit") =>
        /\ in_status = "missing" =>
              /\ exit_status = "1"
              /\ Printed("error_input_not_found")
              /\ <<output_exists, output>> = output_before
        /\ (exit_status = "1" /\ Printed("error_input_not_found")) =>
              in_status = "missing"
        /\ exit_status = "0" =>
              stdout[Len(stdout)] = <<"count", <<Len(filtered_words)>> >>

\* C8: the run on the output of a run writes the same file, and every line of
\* the first output is a record retained again.
C8_Idempotent ==
    (entry = "filter_words" /\ run = 2) =>
        /\ \A k \in 1..Len(InputLines) : Retained(InputLines[k])
        /\ filtered_words = [k \in 1..pos |-> Verbatim(InputLines[k])]
        /\ SelectSeq(stdout, IsWarning) = <<>>
        /\ exit_status = "0" => output = first_output

\* A finished second run of two lines whose first run changed its input.
C8_Witness ==
    /\ entry = "filter_words" /\ run = 2 /\ exit_status = "0"
    /\ Len(file_lines(output)) >= 2
    /\ first_input # first_output

\* C9: should_exclude_word gives a word in any casing the result it gives the
\* lowercased word, and a kept line is one of the input lines with its casing.
C9_CaseInsensitive ==
    /\ Returned("should_exclude_word") =>
          ((ret # 121) <=> should_exclude_word(lower_str(word), index))
    /\ (entry = "filter_words" /\ run = 1) =>
          \A k \in 1..Len(filtered_words) :
              \E j \in 1..pos : filtered_words[k] = Trimmed(InputLines[j])

\* An upper-case word that the guarded-ending rule excludes.
C9_Witness ==
    /\ Returned("should_exclude_word")
    /\ ret = 108
    /\ \A k \in 1..Len(word) : word[k] # lower(word[k])
    /\ PrecedingPosition(word) >= 0

C10_State ==
    entry = "filter_words" =>
        /\ out_opens <= 1
        /\ ~(in_open /\ out_open)
        /\ written <= Len(filtered_words)
        /\ (out_opens > 0 \/ out_open \/ written > 0) =>
              (read_done /\ pos = Len(InputLines) /\ ~in_open)
        /\ out_opens = 0 => <<output_exists, output>> = output_before
        /\ (pc = "exit" /\ exit_status = "1" /\ ~read_done) => out_opens = 0
        /\ pc = "exit" => (~in_open /\ ~out_open)

C10_Step == out_opens' > out_opens => (out_opens = 0 /\ ~in_open /\ read_done)

\* C10: the output file is opened at most once, only after the last input
\* line has been taken and the input closed; a run that fails while the input
\* is opened or read has not touched the output file; a terminated run holds
\* no open handle.
C10_OutputAfterInput == []C10_State /\ [][C10_Step]_vars

\* A run that failed while reading, with a kept line buffered and an existing
\* output file.
C10_Witness ==
    /\ entry = "filter_words" /\ pc = "exit" /\ exit_status = "1"
    /\ ~read_done /\ filtered_words # <<>>
    /\ output_before[1]

====
